---- MODULE Spec2Model ----
(***************************************************************************)
(* Model of the two scripts of the lci repository:                         *)
(*   test/testDriver.py  - runs the interpreter once and judges the run    *)
(*   install.py          - configure / build / docs / install / test       *)
(* Each script is a sequential program; its position is a pc variable.     *)
(* The child process of the test driver and the two pipes that connect it  *)
(* to the driver are part of the state.                                    *)
(***************************************************************************)
EXTENDS Integers, Sequences, FiniteSets, TLC

VARIABLES pyMajor, args, fileContent, expectedOutput, command,
          child, wrote, pipes, results, returncode,
          reports, verdict, exitStatus, pc,
          variant, osName, iargs, cacheExists, ipc, proc, started, codes,
          iexit

dvars == <<pyMajor, args, fileContent, expectedOutput, command,
           child, wrote, pipes, results, returncode,
           reports, verdict, exitStatus, pc>>

ivars == <<variant, osName, iargs, cacheExists, ipc, proc, started, codes,
           iexit>>

vars == <<dvars, ivars>>

(***************************************************************************)
(* Bounds of the model.                                                    *)
(***************************************************************************)
\* capacity of an OS pipe, in bytes
PipeCap == 1
\* bytes the child may write beyond one pipe-full
MaxExtra == 1
\* longest expected-output file, in bytes
MaxLen == 2
\* largest value given to install.py -j
MaxJ == 2

MaxWrite == PipeCap + MaxExtra

Bytes == {0, 1}

Streams == {"out", "err"}

\* byte strings of length at most n
RECURSIVE SeqsUpTo(_)
SeqsUpTo(n) ==
  IF n = 0 THEN {<<>>}
  ELSE LET shorter == SeqsUpTo(n - 1)
       IN shorter \cup {Append(s, b) : s \in {t \in shorter : Len(t) = n - 1},
                                       b \in Bytes}

(***************************************************************************)
(* test/testDriver.py                                                      *)
(***************************************************************************)
MEMERR == 127

\* exit codes a child process is taken to return
ExitCodes == {0, 2, MEMERR}

\* the interpreters /usr/bin/python can name
PyMajors == {2, 3}

\* open(..., 'r').read(): a byte string under Python 2, a text string under 3
FileRead(py, content) ==
  [kind |-> IF py = 2 THEN "bytes" ELSE "str", data |-> content]

\* what communicate() returns for a stream opened without text mode
PipeRead(content) == [kind |-> "bytes", data |-> content]

\* expectedOutput = "" : the str literal
EmptyStr(py) == [kind |-> IF py = 2 THEN "bytes" ELSE "str", data |-> <<>>]

\* Python's != on two strings: values of different types are never equal
NotEqual(a, b) == a.kind # b.kind \/ a.data # b.data

\* lines 45-52
Command(a) ==
  (IF a.memCheck
     THEN <<"valgrind", "-q", "--leak-check=full", "--error-exitcode=127">>
     ELSE <<>>) \o <<"pathToLCI", "lolcodeFile">>

\* a reader that takes stdout to its end before it turns to stderr
CanReadSequential(s, p, ch) ==
  /\ Len(p[s]) > 0
  /\ s = "err" => (ch.state = "exited" /\ Len(p["out"]) = 0)

\* line 57, communicate(): a stream can be read whenever its pipe holds data
CanRead(s, p, ch) == Len(p[s]) > 0

\* a comparison that misses the sentinel itself
IsMemErrAbove(rc) == rc > MEMERR

\* line 59
IsMemErr(rc) == rc = MEMERR

\* the child's code handed on as the driver's own
MemExitStatusPropagated == MEMERR

\* line 61
MemExitStatus == 1

\* an error expectation that any exit code satisfies
ErrorSatisfiedAlways(rc) == TRUE

\* lines 64-67: the else branch of returncode == 0
ErrorSatisfied(rc) == rc # 0

\* an output check that does not look at the exit code
OutputFailedNever(rc) == FALSE

\* line 73
OutputFailed(rc) == rc # 0

\* testDriver.py is started; install.py is not running
DriverInit ==
  /\ pyMajor \in PyMajors
  /\ args \in [expectError : BOOLEAN, memCheck : BOOLEAN,
               outputFile : BOOLEAN, inputFile : BOOLEAN]
  /\ fileContent \in SeqsUpTo(MaxLen)
  /\ ~args.outputFile => fileContent = <<>>
  /\ expectedOutput = EmptyStr(pyMajor)
  /\ command = <<>>
  /\ child = [state |-> "none", pending |-> "idle", code |-> -1]
  /\ wrote = [s \in Streams |-> <<>>]
  /\ pipes = [s \in Streams |-> <<>>]
  /\ results = [s \in Streams |-> <<>>]
  /\ returncode = -1
  /\ reports = <<>>
  /\ verdict = "None"
  /\ exitStatus = -1
  /\ pc = "setup"
  /\ variant = "unmerged"
  /\ osName = "posix"
  /\ iargs = [prefix |-> FALSE, enableMemCheck |-> FALSE,
              buildDocs |-> FALSE, runTests |-> FALSE, j |-> 1]
  /\ cacheExists = FALSE
  /\ ipc = "off"
  /\ proc = "none"
  /\ started = <<>>
  /\ codes = <<>>
  /\ iexit = -1

\* lines 40-54: read the expected output, assemble the command
Setup ==
  /\ pc = "setup"
  /\ expectedOutput' = IF args.outputFile
                         THEN FileRead(pyMajor, fileContent)
                         ELSE EmptyStr(pyMajor)
  /\ command' = Command(args)
  /\ pc' = "popen"
  /\ UNCHANGED <<pyMajor, args, fileContent, child, wrote, pipes, results,
                 returncode, reports, verdict, exitStatus, ivars>>

\* line 56: the child is started
PopenOk ==
  /\ pc = "popen"
  /\ child' = [child EXCEPT !.state = "running"]
  /\ pc' = "communicate"
  /\ UNCHANGED <<pyMajor, args, fileContent, expectedOutput, command, wrote,
                 pipes, results, returncode, reports, verdict, exitStatus,
                 ivars>>

\* line 56: the command cannot be started; Popen raises OSError, nothing
\* catches it, the interpreter prints a traceback and exits with status 1
PopenRaises ==
  /\ pc = "popen"
  /\ child' = [child EXCEPT !.state = "failed"]
  /\ exitStatus' = 1
  /\ pc' = "done"
  /\ UNCHANGED <<pyMajor, args, fileContent, expectedOutput, command, wrote,
                 pipes, results, returncode, reports, verdict, ivars>>

\* the child decides to write to one of its streams
ChildIntend(s) ==
  /\ child.state = "running"
  /\ child.pending = "idle"
  /\ Len(wrote["out"]) + Len(wrote["err"]) < MaxWrite
  /\ child' = [child EXCEPT !.pending = s]
  /\ UNCHANGED <<pyMajor, args, fileContent, expectedOutput, command, wrote,
                 pipes, results, returncode, reports, verdict, exitStatus,
                 pc, ivars>>

\* write(2) on a pipe: completes only while the pipe has room
ChildWrite(b) ==
  /\ child.state = "running"
  /\ child.pending \in Streams
  /\ Len(pipes[child.pending]) < PipeCap
  /\ pipes' = [pipes EXCEPT ![child.pending] = Append(@, b)]
  /\ wrote' = [wrote EXCEPT ![child.pending] = Append(@, b)]
  /\ child' = [child EXCEPT !.pending = "idle"]
  /\ UNCHANGED <<pyMajor, args, fileContent, expectedOutput, command,
                 results, returncode, reports, verdict, exitStatus, pc,
                 ivars>>

\* the child terminates; its ends of the pipes are closed
ChildExit(c) ==
  /\ child.state = "running"
  /\ child.pending = "idle"
  /\ child' = [child EXCEPT !.state = "exited", !.code = c]
  /\ UNCHANGED <<pyMajor, args, fileContent, expectedOutput, command, wrote,
                 pipes, results, returncode, reports, verdict, exitStatus,
                 pc, ivars>>

\* line 57, inside communicate(): read from a stream that has data
Drain(s) ==
  /\ pc = "communicate"
  /\ CanRead(s, pipes, child)
  /\ results' = [results EXCEPT ![s] = Append(@, Head(pipes[s]))]
  /\ pipes' = [pipes EXCEPT ![s] = Tail(@)]
  /\ UNCHANGED <<pyMajor, args, fileContent, expectedOutput, command, child,
                 wrote, returncode, reports, verdict, exitStatus, pc, ivars>>

\* line 57: both streams are at end of file and the child has been waited for
CommunicateReturn ==
  /\ pc = "communicate"
  /\ child.state = "exited"
  /\ \A s \in Streams : Len(pipes[s]) = 0
  /\ returncode' = child.code
  /\ pc' = "checkMem"
  /\ UNCHANGED <<pyMajor, args, fileContent, expectedOutput, command, child,
                 wrote, pipes, results, reports, verdict, exitStatus, ivars>>

\* lines 59-61
CheckMem ==
  /\ pc = "checkMem"
  /\ IF IsMemErr(returncode)
       THEN /\ reports' = Append(reports, "Failure")
            /\ verdict' = "MemoryFault"
            /\ exitStatus' = MemExitStatus
            /\ pc' = "done"
       ELSE /\ pc' = "checkError"
            /\ UNCHANGED <<reports, verdict, exitStatus>>
  /\ UNCHANGED <<pyMajor, args, fileContent, expectedOutput, command, child,
                 wrote, pipes, results, returncode, ivars>>

\* lines 63-70
CheckError ==
  /\ pc = "checkError"
  /\ IF args.expectError
       THEN IF ErrorSatisfied(returncode)
              THEN /\ reports' = Append(reports, "Success")
                   /\ pc' = "checkOutput"
                   /\ UNCHANGED <<verdict, exitStatus>>
              ELSE /\ reports' = Append(reports, "Failure")
                   /\ verdict' = "UnexpectedSuccess"
                   /\ exitStatus' = 1
                   /\ pc' = "done"
       ELSE /\ pc' = "checkOutput"
            /\ UNCHANGED <<reports, verdict, exitStatus>>
  /\ UNCHANGED <<pyMajor, args, fileContent, expectedOutput, command, child,
                 wrote, pipes, results, returncode, ivars>>

\* lines 72-84
CheckOutput ==
  /\ pc = "checkOutput"
  /\ IF args.outputFile
       THEN IF OutputFailed(returncode)
              THEN /\ reports' = Append(reports, "Failure")
                   /\ verdict' = "UnexpectedFailure"
                   /\ exitStatus' = 1
                   /\ pc' = "done"
              ELSE IF NotEqual(expectedOutput, PipeRead(results["out"]))
                     THEN /\ reports' = Append(reports, "Failure")
                          /\ verdict' = "OutputMismatch"
                          /\ exitStatus' = 1
                          /\ pc' = "done"
                     ELSE /\ reports' = Append(reports, "Success")
                          /\ pc' = "finish"
                          /\ UNCHANGED <<verdict, exitStatus>>
       ELSE /\ pc' = "finish"
            /\ UNCHANGED <<reports, verdict, exitStatus>>
  /\ UNCHANGED <<pyMajor, args, fileContent, expectedOutput, command, child,
                 wrote, pipes, results, returncode, ivars>>

\* lines 86-87 and the end of the script: the interpreter exits with status 0
Finish ==
  /\ pc = "finish"
  /\ verdict' = "Pass"
  /\ exitStatus' = 0
  /\ pc' = "done"
  /\ UNCHANGED <<pyMajor, args, fileContent, expectedOutput, command, child,
                 wrote, pipes, results, returncode, reports, ivars>>

(***************************************************************************)
(* install.py                                                              *)
(* The file holds an unresolved merge: each conflict region has a HEAD     *)
(* side and a "future" side.  The model covers the file as it stands       *)
(* (the interpreter rejects it before running anything) and the script     *)
(* read with either side of every region.                                  *)
(***************************************************************************)
Variants == {"unmerged", "HEAD", "future"}

OsNames == {"posix", "nt"}

\* exit codes a build step is taken to return
StepCodes == {0, 1, 2}

\* lines 60-65
MakeCommand(v, os) ==
  IF v = "future" /\ os = "nt" THEN "mingw32-make" ELSE "make"

\* lines 55-87: the cmake command and the form it is handed to Popen in
CmakeCommand(v, os, a) ==
  [prog |-> "cmake",
   opts |-> (IF v = "future" /\ os = "nt" THEN <<"-G">> ELSE <<>>)
            \o (IF a.prefix THEN <<"-DCMAKE_INSTALL_PREFIX">> ELSE <<>>)
            \o (IF a.enableMemCheck THEN <<"-DPERFORM_MEM_TESTS">> ELSE <<>>)
            \o <<".">>,
   j |-> 0,
   form |-> IF v = "future" THEN "string" ELSE "list",
   output |-> "configure.out"]

\* lines 89-126: the command of every step
StepCommand(step, v, os, a) ==
  CASE step = "cmake" -> CmakeCommand(v, os, a)
    [] step = "make" ->
         [prog |-> MakeCommand(v, os), opts |-> <<>>, j |-> a.j,
          form |-> "list", output |-> "make.out"]
    [] step = "docs" ->
         [prog |-> MakeCommand(v, os), opts |-> <<"docs">>, j |-> a.j,
          form |-> "list", output |-> "docs.out"]
    [] step = "install" ->
         [prog |-> MakeCommand(v, os), opts |-> <<"install">>, j |-> 0,
          form |-> "list", output |-> "install.out"]
    [] step = "test" ->
         [prog |-> "ctest", opts |-> <<>>, j |-> a.j,
          form |-> "list", output |-> "test.out"]

\* lines 28-35: whether Popen goes through the shell
UsesShell(v, os) == v = "future" /\ os = "nt"

\* Popen without a shell on POSIX takes a string as the name of the program
CanExec(cmd, shell, os) ==
  \/ cmd.form = "list"
  \/ shell
  \/ os = "nt"
  \/ Len(cmd.opts) = 0

\* a test that takes only code 1 for a failure
StepFailedOnOne(rc) == rc = 1

\* line 37
StepFailed(rc) == rc # 0

\* lines 89-126: the statement that follows a step
StepAfter(step, a) ==
  CASE step = "cmake" -> "make"
    [] step = "make" -> IF a.buildDocs THEN "docs" ELSE "install"
    [] step = "docs" -> "install"
    [] step = "install" -> IF a.runTests THEN "test" ELSE "end"
    [] step = "test" -> "end"

Steps == {"cmake", "make", "docs", "install", "test"}

\* install.py is started; the test driver is not running
InstallStart ==
  /\ variant \in Variants
  /\ osName \in OsNames
  /\ iargs \in [prefix : BOOLEAN, enableMemCheck : BOOLEAN,
                buildDocs : BOOLEAN, runTests : BOOLEAN, j : 0..MaxJ]
  /\ cacheExists \in BOOLEAN
  /\ ipc = "compile"
  /\ proc = "none"
  /\ started = <<>>
  /\ codes = <<>>
  /\ iexit = -1
  /\ pyMajor = 2
  /\ args = [expectError |-> FALSE, memCheck |-> FALSE,
             outputFile |-> FALSE, inputFile |-> FALSE]
  /\ fileContent = <<>>
  /\ expectedOutput = EmptyStr(2)
  /\ command = <<>>
  /\ child = [state |-> "none", pending |-> "idle", code |-> -1]
  /\ wrote = [s \in Streams |-> <<>>]
  /\ pipes = [s \in Streams |-> <<>>]
  /\ results = [s \in Streams |-> <<>>]
  /\ returncode = -1
  /\ reports = <<>>
  /\ verdict = "None"
  /\ exitStatus = -1
  /\ pc = "off"

\* the interpreter compiles the whole file before it runs the first line:
\* the conflict markers are a SyntaxError, reported with exit status 1
Compile ==
  /\ ipc = "compile"
  /\ IF variant = "unmerged"
       THEN ipc' = "done" /\ iexit' = 1
       ELSE ipc' = "cache" /\ UNCHANGED iexit
  /\ UNCHANGED <<variant, osName, iargs, cacheExists, proc, started, codes,
                 dvars>>

\* lines 41-43
RemoveCache ==
  /\ ipc = "cache"
  /\ cacheExists' = FALSE
  /\ ipc' = "parse"
  /\ UNCHANGED <<variant, osName, iargs, proc, started, codes, iexit, dvars>>

\* lines 8-13 and 45-53: -j must be a positive integer, else argparse exits 2
ParseArgs ==
  /\ ipc = "parse"
  /\ IF ~(iargs.j >= 1)
       THEN ipc' = "done" /\ iexit' = 2
       ELSE ipc' = "cmake" /\ UNCHANGED iexit
  /\ UNCHANGED <<variant, osName, iargs, cacheExists, proc, started, codes,
                 dvars>>

\* runSubProc, lines 23-35: the step's process is started
RunSubProcStart ==
  /\ ipc \in Steps
  /\ proc = "none"
  /\ CanExec(StepCommand(ipc, variant, osName, iargs),
             UsesShell(variant, osName), osName)
  /\ started' = Append(started,
                       [step |-> ipc,
                        cmd |-> StepCommand(ipc, variant, osName, iargs)])
  /\ proc' = "running"
  /\ UNCHANGED <<variant, osName, iargs, cacheExists, ipc, codes, iexit,
                 dvars>>

\* runSubProc, lines 27-35: open() or Popen raises; the traceback ends the
\* script with exit status 1
RunSubProcRaises ==
  /\ ipc \in Steps
  /\ proc = "none"
  /\ ipc' = "done"
  /\ iexit' = 1
  /\ UNCHANGED <<variant, osName, iargs, cacheExists, proc, started, codes,
                 dvars>>

\* runSubProc, lines 36-39: wait for the process, stop on a nonzero code
RunSubProcWait(rc) ==
  /\ ipc \in Steps
  /\ proc = "running"
  /\ codes' = Append(codes, rc)
  /\ proc' = "none"
  /\ IF StepFailed(rc)
       THEN ipc' = "done" /\ iexit' = 1
       ELSE ipc' = StepAfter(ipc, iargs) /\ UNCHANGED iexit
  /\ UNCHANGED <<variant, osName, iargs, cacheExists, started, dvars>>

\* the end of the script: exit status 0
InstallEnd ==
  /\ ipc = "end"
  /\ ipc' = "done"
  /\ iexit' = 0
  /\ UNCHANGED <<variant, osName, iargs, cacheExists, proc, started, codes,
                 dvars>>

(***************************************************************************)
(* Specifications                                                          *)
(***************************************************************************)
Init == DriverInit

Next ==
  \/ Setup
  \/ PopenOk
  \/ PopenRaises
  \/ \E s \in Streams : ChildIntend(s)
  \/ \E b \in Bytes : ChildWrite(b)
  \/ \E c \in ExitCodes : ChildExit(c)
  \/ \E s \in Streams : Drain(s)
  \/ CommunicateReturn
  \/ CheckMem
  \/ CheckError
  \/ CheckOutput
  \/ Finish

Spec == Init /\ [][Next]_vars

\* the driver is a running process and the kernel completes a write that has
\* room; the child is free never to write again and never to exit
DriverProgress ==
  \/ Setup
  \/ PopenOk
  \/ PopenRaises
  \/ \E s \in Streams : Drain(s)
  \/ CommunicateReturn
  \/ CheckMem
  \/ CheckError
  \/ CheckOutput
  \/ Finish

FairSpec ==
  /\ Spec
  /\ WF_vars(DriverProgress)
  /\ WF_vars(\E b \in Bytes : ChildWrite(b))

InstallNext ==
  \/ Compile
  \/ RemoveCache
  \/ ParseArgs
  \/ RunSubProcStart
  \/ RunSubProcRaises
  \/ \E rc \in StepCodes : RunSubProcWait(rc)
  \/ InstallEnd

InstallSpec == InstallStart /\ [][InstallNext]_vars

(***************************************************************************)
(* Properties of test/testDriver.py                                        *)
(***************************************************************************)
\* the driver has exited after judging a child that ran to its end
Judged == pc = "done" /\ child.state = "exited"

\* the child printed exactly the bytes of the expected-output file
StdoutMatches == results["out"] = fileContent

\* C1: with memCheck set, a child that exits with the sentinel 127 is judged
\* MemoryFault and the driver exits 1, whatever expectError, the expected
\* output and the captured stdout are; the memory-fault report is the only
\* report, so no later check was applied.
C1_MemoryFaultShortCircuits ==
  (Judged /\ args.memCheck /\ returncode = MEMERR)
    => /\ verdict = "MemoryFault"
       /\ exitStatus = 1
       /\ reports = <<"Failure">>

C1_Witness ==
  /\ Judged /\ args.memCheck /\ returncode = MEMERR
  /\ args.expectError /\ args.outputFile
  /\ pyMajor = 2 /\ StdoutMatches /\ Len(fileContent) > 0

\* C2 as stated: with an expected output, every nonzero exit code of the
\* child is judged UnexpectedFailure and the driver exits 1.
C2_Original ==
  (Judged /\ args.outputFile /\ returncode # 0)
    => (verdict = "UnexpectedFailure" /\ exitStatus = 1)

\* C2 amended: with an expected output, every nonzero exit code of the child
\* makes the driver exit 1 whatever was captured on stdout, and the verdict
\* is UnexpectedFailure whenever that code is not the sentinel 127.
C2_Amended ==
  (Judged /\ args.outputFile /\ returncode # 0)
    => /\ exitStatus = 1
       /\ returncode # MEMERR => verdict = "UnexpectedFailure"

C2_Witness ==
  /\ Judged /\ args.outputFile /\ returncode = 2
  /\ pyMajor = 2 /\ StdoutMatches /\ Len(fileContent) > 0
  /\ verdict = "UnexpectedFailure"

\* C3 as stated: with expectError, exit code 0 is judged UnexpectedSuccess
\* (driver exits 1) and every nonzero exit code leads to Pass (driver exits
\* 0), also when an expected output was supplied.
C3_Original ==
  (Judged /\ args.expectError)
    => /\ returncode = 0 => (verdict = "UnexpectedSuccess" /\ exitStatus = 1)
       /\ returncode # 0 => (verdict = "Pass" /\ exitStatus = 0)

\* C3 amended: with expectError, exit code 0 is judged UnexpectedSuccess
\* (driver exits 1); a nonzero exit code other than the sentinel 127 is first
\* reported as a satisfied error expectation, whatever stdout holds, and then
\* leads to Pass (driver exits 0) when no expected output was supplied and to
\* UnexpectedFailure (driver exits 1) when one was.
C3_Amended ==
  (Judged /\ args.expectError)
    => /\ returncode = 0 => (verdict = "UnexpectedSuccess" /\ exitStatus = 1)
       /\ (returncode # 0 /\ returncode # MEMERR)
            => /\ Len(reports) >= 1 /\ reports[1] = "Success"
               /\ ~args.outputFile => (verdict = "Pass" /\ exitStatus = 0)
               /\ args.outputFile
                    => (verdict = "UnexpectedFailure" /\ exitStatus = 1)

C3_Witness ==
  /\ Judged /\ args.expectError /\ ~args.outputFile
  /\ returncode = 2 /\ Len(results["out"]) > 0 /\ Len(results["err"]) > 0
  /\ verdict = "Pass"

\* C4: with no expectError, no memCheck and no expected output, every exit
\* code of the child, 127 included, is judged Pass and the driver exits 0.
C4_SmokeTest ==
  (Judged /\ ~args.expectError /\ ~args.memCheck /\ ~args.outputFile)
    => (verdict = "Pass" /\ exitStatus = 0)

\* C5: with an expected output E, no expectError and a child that exits 0,
\* the run is judged Pass (driver exits 0) when the captured stdout equals E
\* and OutputMismatch (driver exits 1) when it differs; stderr has no part.
C5_OutputComparison ==
  (Judged /\ args.outputFile /\ ~args.expectError /\ returncode = 0)
    => IF StdoutMatches
         THEN verdict = "Pass" /\ exitStatus = 0
         ELSE verdict = "OutputMismatch" /\ exitStatus = 1

\* C6: once a verdict is reached the driver's exit status is 0 exactly when
\* the verdict is Pass, is 1 for every other verdict, and is never the
\* child's sentinel 127.
C6_ExitStatusFollowsVerdict ==
  (pc = "done" /\ verdict # "None")
    => /\ exitStatus = 0 <=> verdict = "Pass"
       /\ verdict # "Pass" => exitStatus = 1
       /\ exitStatus # MEMERR

C6_Witness ==
  /\ pc = "done" /\ verdict = "MemoryFault"
  /\ returncode = MEMERR /\ exitStatus = 1

\* C7: every judged run ends with exactly one success-or-failure report.
C7_ExactlyOneReport == Judged => Len(reports) = 1

\* C8: when the command cannot be started the driver ends without a verdict
\* and with an exit status that is neither 0 nor the 1 of a failing verdict.
C8_HarnessFaultStatus ==
  (pc = "done" /\ child.state = "failed")
    => /\ verdict = "None"
       /\ reports = <<>>
       /\ exitStatus # 0
       /\ exitStatus # 1

\* the child waits for room in a full pipe and the driver can read nothing
PipeDeadlock ==
  /\ pc = "communicate"
  /\ child.state = "running"
  /\ child.pending \in Streams
  /\ Len(pipes[child.pending]) = PipeCap
  /\ \A s \in Streams : ~CanRead(s, pipes, child)

\* the checks run on the whole output of a child that has been waited for
VerdictAfterCapture ==
  (pc \in {"checkMem", "checkError", "checkOutput", "finish"} \/ Judged)
    => /\ child.state = "exited"
       /\ returncode = child.code
       /\ \A s \in Streams : results[s] = wrote[s] /\ pipes[s] = <<>>

Plan(a) ==
  <<"cmake", "make">> \o (IF a.buildDocs THEN <<"docs">> ELSE <<>>)
    \o <<"install">> \o (IF a.runTests THEN <<"test">> ELSE <<>>)

====
